---- MODULE Spec2Model ----
(***************************************************************************)
(* SwitchBot Lock Logs: the log manager of one lock (fetch, enrichment,    *)
(* cache, listeners), the Last User sensor that tracks the newest valid    *)
(* entry, and the delayed, debounced fetch tasks scheduled on the event    *)
(* loop by the config entry setup and the lock state-change listener.      *)
(***************************************************************************)
EXTENDS Integers, Sequences, FiniteSets, TLC

\* ---------------------------------------------------------------- bounds
\* Largest timestamp the device reports.
MaxTs == 2
\* Longest batch the device returns.
MaxBatch == 2
\* Number of lock state-change events that schedule a fetch.
MaxTriggers == 2
\* Number of get_lock_logs service calls.
MaxServiceCalls == 1
\* Number of set_lock_user_name and delete_lock_user_name service calls.
MaxStoreCalls == 2

\* ------------------------------------------------------ program constants
LOG_FETCH_DELAY == 2
INITIAL_FETCH_DELAY == 1
\* "Minimum time between log fetches (seconds) - debouncing"
LOG_FETCH_DEBOUNCE == 3

\* Optional values: None is the empty sequence, Some(x) a one-element one.
None == <<>>
Some(x) == <<x>>

\* The lock this manager serves, and another lock of the shared user store.
MAC == "AA:BB"
OTHER_MAC == "CC:DD"

Record(t, p) == [timestamp |-> t, payload |-> p, source |-> 1, action |-> 1]

\* Records the device reports: a user action at every timestamp, and the
\* all-zero sentinel and a payload that is too short at the greatest one.
RawRecords ==
    {Record(t, "590103050000") : t \in 1..MaxTs}
        \cup {Record(MaxTs, "000000000000"), Record(MaxTs, "0000")}

RECURSIVE SeqsUpTo(_, _)
SeqsUpTo(S, n) ==
    IF n = 0 THEN {<<>>}
    ELSE LET shorter == SeqsUpTo(S, n - 1)
         IN  shorter \cup {Append(s, x) : s \in {q \in shorter : Len(q) = n - 1}, x \in S}

\* What get_logs can return: any batch, in any order, also the empty one.
DeviceBatches == SeqsUpTo(RawRecords, MaxBatch)

\* The batches get_logs returns where the scheduling of the fetches is what
\* is checked: none, one user action, and the sentinel before a user action.
FewBatches ==
    { <<>>,
      <<Record(1, "590103050000")>>,
      <<Record(MaxTs, "000000000000"), Record(1, "590101020000")>> }

\* A record with the source and action codes the device gave it.
LogRecord(t, p, source, action) ==
    [timestamp |-> t, payload |-> p, source |-> source, action |-> action]

\* Records for the enrichment: user ids behind both type bytes, with zero
\* and non-zero bytes after the id, in both letter cases and with a sign;
\* an id of zero; a byte that is not hexadecimal; a wrong byte 0 and a wrong
\* byte 1; a short payload; source and action codes the library does not
\* know.
EnrichRecords ==
    { LogRecord(1, "590103050000", 1, 1),
      LogRecord(2, "590305010200", 2, 2),
      LogRecord(1, "590100000000", 9, 1),
      LogRecord(1, "5901zz000000", 1, 9),
      LogRecord(1, "5903fF000000", 2, 1),
      LogRecord(1, "5901-1000000", 1, 1),
      LogRecord(1, "590103000000", 1, 2),
      LogRecord(1, "580105000000", 1, 1),
      LogRecord(1, "590205000000", 1, 1),
      LogRecord(1, "5901", 1, 1) }

\* What get_logs can return where the enrichment is what is checked.
EnrichBatches == SeqsUpTo(EnrichRecords, MaxBatch)

\* ------------------------------------------------------------ user store
\* SwitchBotLockUserStore.async_get_lock_data
async_get_lock_data(d, mac) ==
    IF mac \in DOMAIN d THEN d[mac] ELSE [name |-> None, users |-> <<>>]

\* A faulty async_get_users: ids the lock has no name for are looked up in
\* the entry of the other lock.
async_get_users_any_lock(d, mac) ==
    async_get_lock_data(d, mac).users @@ async_get_lock_data(d, OTHER_MAC).users

\* SwitchBotLockUserStore.async_get_users: the users mapping of one lock, a
\* function from the string form of a user id to a name.
async_get_users(d, mac) == async_get_lock_data(d, mac).users

\* A lock the store has no entry for.
NEW_MAC == "EE:FF"

\* A mapping without the key k. The empty mapping is <<>>.
Without(f, k) ==
    IF DOMAIN f \ {k} = {} THEN <<>> ELSE [j \in DOMAIN f \ {k} |-> f[j]]

\* What a mutating call of the store gives: the table after it, whether it
\* raised, and whether it went on to async_save.
StoreResult(d, raised, saves) == [_data |-> d, raised |-> raised, saves |-> saves]

\* A faulty async_set_user: the users mapping of the lock is replaced.
async_set_user_replaces_users(d, mac, user_id, name) ==
    LET lock == async_get_lock_data(d, mac)
    IN  StoreResult((mac :> [lock EXCEPT !.users = (ToString(user_id) :> name)]) @@ d,
                    FALSE, TRUE)

\* A faulty async_set_user: the name of an id that has one is extended.
async_set_user_extends_name(d, mac, user_id, name) ==
    LET lock == async_get_lock_data(d, mac)
        key == ToString(user_id)
        new_name == IF key \in DOMAIN lock.users THEN lock.users[key] \o name ELSE name
    IN  StoreResult((mac :> [lock EXCEPT !.users = (key :> new_name) @@ @]) @@ d,
                    FALSE, TRUE)

\* SwitchBotLockUserStore.async_set_user: the lock gets an entry if it has
\* none, str(user_id) is mapped to name, and the table is saved.
async_set_user(d, mac, user_id, name) ==
    LET lock == IF mac \in DOMAIN d THEN d[mac] ELSE [name |-> None, users |-> <<>>]
    IN  StoreResult((mac :> [lock EXCEPT !.users = (ToString(user_id) :> name) @@ @]) @@ d,
                    FALSE, TRUE)

\* A faulty async_delete_user: the id is popped and the table is not saved.
async_delete_user_without_save(d, mac, user_id) ==
    IF mac \in DOMAIN d
    THEN StoreResult([d EXCEPT ![mac].users = Without(@, ToString(user_id))], FALSE, FALSE)
    ELSE StoreResult(d, FALSE, FALSE)

\* SwitchBotLockUserStore.async_delete_user: for a lock that has an entry,
\* str(user_id) is popped if it is there, and the table is saved; for a lock
\* without an entry nothing is done.
async_delete_user(d, mac, user_id) ==
    IF mac \in DOMAIN d
    THEN StoreResult([d EXCEPT ![mac].users = Without(@, ToString(user_id))], FALSE, TRUE)
    ELSE StoreResult(d, FALSE, FALSE)

\* SwitchBotLockUserStore.async_set_lock_name: the lock gets an entry with
\* this name if it has none, else its name is assigned; the table is saved.
async_set_lock_name(d, mac, name) ==
    IF mac \notin DOMAIN d
    THEN StoreResult((mac :> [name |-> Some(name), users |-> <<>>]) @@ d, FALSE, TRUE)
    ELSE StoreResult([d EXCEPT ![mac].name = Some(name)], FALSE, TRUE)

\* The table the store holds after async_load: a name for user 3 of this
\* lock, and names for users 1 and 3 of the other lock.
InitialTable ==
    (MAC :> [name |-> None, users |-> ("3" :> "Alice")])
        @@ (OTHER_MAC :> [name |-> None, users |-> ("1" :> "Bob" @@ "3" :> "Carol")])

\* ------------------------------------------------------------ enrichment
HexDigits == "0123456789abcdef"
HexDigitsUpper == "0123456789ABCDEF"

IsHexChar(c) ==
    \E i \in 1..16 : SubSeq(HexDigits, i, i) = c \/ SubSeq(HexDigitsUpper, i, i) = c

HexCharValue(c) ==
    (CHOOSE i \in 1..16 : SubSeq(HexDigits, i, i) = c \/ SubSeq(HexDigitsUpper, i, i) = c) - 1

\* int(s, 16) of a two-character string: Some(value), or None for ValueError.
\* Python strips blanks and accepts a sign before the digits.
ParseHex2(s) ==
    LET a == SubSeq(s, 1, 1)
        b == SubSeq(s, 2, 2)
    IN  IF IsHexChar(a) /\ IsHexChar(b) THEN Some(16 * HexCharValue(a) + HexCharValue(b))
        ELSE IF a \in {"+", " "} /\ IsHexChar(b) THEN Some(HexCharValue(b))
        ELSE IF a = "-" /\ IsHexChar(b) THEN Some(0 - HexCharValue(b))
        ELSE IF IsHexChar(a) /\ b = " " THEN Some(HexCharValue(a))
        ELSE None

\* A faulty _extract_user_id: byte 1 is not compared.
extract_user_id_any_type(payload) ==
    IF Len(payload) < 6 THEN None
    ELSE IF SubSeq(payload, 1, 2) = "59"
         THEN LET parsed == ParseHex2(SubSeq(payload, 5, 6))
              IN  IF parsed # None /\ parsed[1] > 0 THEN parsed ELSE None
         ELSE None

\* A faulty _extract_user_id: the parsed value is returned whatever it is.
extract_user_id_keeps_zero(payload) ==
    IF Len(payload) < 6 THEN None
    ELSE IF SubSeq(payload, 1, 2) = "59" /\ SubSeq(payload, 3, 4) \in {"01", "03"}
         THEN ParseHex2(SubSeq(payload, 5, 6))
         ELSE None

\* SwitchBotLockLogManager._extract_user_id
_extract_user_id(payload) ==
    IF Len(payload) < 6 THEN None
    ELSE IF SubSeq(payload, 1, 2) = "59" /\ SubSeq(payload, 3, 4) \in {"01", "03"}
         THEN LET parsed == ParseHex2(SubSeq(payload, 5, 6))
              IN  IF parsed # None /\ parsed[1] > 0 THEN parsed ELSE None
         ELSE None

\* switchbot.const.LockLogSource and LockLogAction, the enumerations of the
\* switchbot library, as maps from a code to the member's name. The library
\* is not part of this repository: two members stand for each enumeration,
\* and a code outside the map is one the constructor rejects (ValueError).
LockLogSource == (1 :> "MANUAL") @@ (2 :> "AUTO_LOCK")
LockLogAction == (1 :> "LOCK") @@ (2 :> "UNLOCK")

UpperLetters == "ABCDEFGHIJKLMNOPQRSTUVWXYZ"
LowerLetters == "abcdefghijklmnopqrstuvwxyz"

\* The position of the one-character string c in `letters`, 0 if it is not there.
LetterIndex(c, letters) ==
    IF \E i \in 1..Len(letters) : SubSeq(letters, i, i) = c
    THEN CHOOSE i \in 1..Len(letters) : SubSeq(letters, i, i) = c
    ELSE 0

IsLetter(c) == LetterIndex(c, UpperLetters) > 0 \/ LetterIndex(c, LowerLetters) > 0

lower_char(c) ==
    LET i == LetterIndex(c, UpperLetters)
    IN  IF i > 0 THEN SubSeq(LowerLetters, i, i) ELSE c

upper_char(c) ==
    LET i == LetterIndex(c, LowerLetters)
    IN  IF i > 0 THEN SubSeq(UpperLetters, i, i) ELSE c

\* str.lower()
RECURSIVE str_lower(_)
str_lower(s) ==
    IF s = "" THEN ""
    ELSE lower_char(SubSeq(s, 1, 1)) \o str_lower(SubSeq(s, 2, Len(s)))

\* str.replace(old, new) for one-character strings old and new.
RECURSIVE str_replace(_, _, _)
str_replace(s, old, new) ==
    IF s = "" THEN ""
    ELSE (IF SubSeq(s, 1, 1) = old THEN new ELSE SubSeq(s, 1, 1))
             \o str_replace(SubSeq(s, 2, Len(s)), old, new)

\* str.title(): a letter that follows a letter is lowered, any other letter
\* is raised.
RECURSIVE TitleFrom(_, _)
TitleFrom(s, after_letter) ==
    IF s = "" THEN ""
    ELSE LET c == SubSeq(s, 1, 1)
         IN  (IF after_letter THEN lower_char(c) ELSE upper_char(c))
                 \o TitleFrom(SubSeq(s, 2, Len(s)), IsLetter(c))

str_title(s) == TitleFrom(s, FALSE)

\* LockLogSource(code).name.replace("_", " ").title() for every code of the
\* enumeration, and LockLogAction(code).name.lower() likewise.
SourceDisplayNames ==
    [code \in DOMAIN LockLogSource |-> str_title(str_replace(LockLogSource[code], "_", " "))]
ActionNames == [code \in DOMAIN LockLogAction |-> str_lower(LockLogAction[code])]

\* source_display of _enrich_logs: the member's name as a title, or the
\* fallback with the code when the enumeration does not know the code.
source_display(source) ==
    IF source \in DOMAIN LockLogSource
    THEN SourceDisplayNames[source]
    ELSE "Unknown (Source " \o ToString(source) \o ")"

\* action_name of _enrich_logs.
action_name(action) ==
    IF action \in DOMAIN LockLogAction
    THEN ActionNames[action]
    ELSE "unknown_" \o ToString(action)

\* One record of SwitchBotLockLogManager._enrich_logs.
EnrichOne(log, users) ==
    LET user_id == _extract_user_id(log.payload)
        user_name ==
            IF user_id # None /\ ToString(user_id[1]) \in DOMAIN users
            THEN Some(users[ToString(user_id[1])])
            ELSE None
    IN  [timestamp |-> log.timestamp, payload |-> log.payload,
         source |-> log.source, action |-> log.action,
         user_id |-> user_id, user_name |-> user_name,
         source_display |-> source_display(log.source),
         action_name |-> action_name(log.action)]

\* A faulty _enrich_logs: a record without a user id is left out.
RECURSIVE enrich_logs_skips_unparsed(_, _)
enrich_logs_skips_unparsed(logs, users) ==
    IF logs = <<>> THEN <<>>
    ELSE (IF _extract_user_id(Head(logs).payload) = None
          THEN <<>>
          ELSE <<EnrichOne(Head(logs), users)>>)
             \o enrich_logs_skips_unparsed(Tail(logs), users)

\* SwitchBotLockLogManager._enrich_logs
_enrich_logs(logs, users) == [i \in 1..Len(logs) |-> EnrichOne(logs[i], users)]

\* ------------------------------------------------------- Last User sensor
\* A faulty _is_valid_payload: the sentinel test is missing.
is_valid_payload_accepts_sentinel(payload) == Len(payload) >= 6

\* SwitchBotLockLastUserSensor._is_valid_payload
_is_valid_payload(payload) ==
    IF Len(payload) < 6 THEN FALSE ELSE payload # "000000000000"

\* The loop of _get_newest_valid_log from position i on.
RECURSIVE ScanFrom(_, _, _)
ScanFrom(logs, last, i) ==
    IF i > Len(logs) THEN None
    ELSE IF logs[i].timestamp > last /\ _is_valid_payload(logs[i].payload)
         THEN Some(logs[i])
         ELSE ScanFrom(logs, last, i + 1)

\* The same scan from the end of the list.
RECURSIVE ScanBack(_, _, _)
ScanBack(logs, last, i) ==
    IF i < 1 THEN None
    ELSE IF logs[i].timestamp > last /\ _is_valid_payload(logs[i].payload)
         THEN Some(logs[i])
         ELSE ScanBack(logs, last, i - 1)

\* A faulty _get_newest_valid_log: the last match wins.
get_newest_valid_log_last_match(logs, last) == ScanBack(logs, last, Len(logs))

\* A faulty _get_newest_valid_log: the timestamp is not compared.
get_newest_valid_log_any_timestamp(logs, last) == ScanFrom(logs, -1, 1)

\* SwitchBotLockLastUserSensor._get_newest_valid_log: the first entry, in
\* list order, that is newer than the last processed one and valid.
_get_newest_valid_log(logs, last) == ScanFrom(logs, last, 1)

\* A faulty _handle_log_update: _current_log is assigned without the test.
handle_log_update_resets(tr, logs) ==
    LET new_log == _get_newest_valid_log(logs, tr._last_processed_timestamp)
    IN  [_current_log |-> new_log,
         _last_processed_timestamp |->
             IF new_log # None THEN new_log[1].timestamp ELSE tr._last_processed_timestamp]

\* A faulty _handle_log_update: the mark is taken from the first entry of
\* the cache instead of the accepted one.
handle_log_update_stale_mark(tr, logs) ==
    LET new_log == _get_newest_valid_log(logs, tr._last_processed_timestamp)
    IN  IF new_log # None
        THEN [_current_log |-> new_log, _last_processed_timestamp |-> logs[1].timestamp]
        ELSE tr

\* SwitchBotLockLastUserSensor._handle_log_update, on the sensor's state
\* [_current_log, _last_processed_timestamp].
_handle_log_update(tr, logs) ==
    LET new_log == _get_newest_valid_log(logs, tr._last_processed_timestamp)
    IN  IF new_log # None
        THEN [_current_log |-> new_log, _last_processed_timestamp |-> new_log[1].timestamp]
        ELSE tr

\* ------------------------------------------------------------ log manager
\* SwitchBotLockLogManager._notify_listeners: every listener is called, in
\* list order; only the Last User sensor's handler keeps state.
RECURSIVE NotifyFrom(_, _, _, _)
NotifyFrom(ls, tr, logs, i) ==
    IF i > Len(ls) THEN tr
    ELSE NotifyFrom(ls,
                    IF ls[i] = "last_user" THEN _handle_log_update(tr, logs) ELSE tr,
                    logs, i + 1)

_notify_listeners(ls, tr, logs) == NotifyFrom(ls, tr, logs, 1)

\* A faulty remove_listener: the listener registered first is removed,
\* whichever handle is called.
remove_listener_removes_first(ls, listener) ==
    IF ls # <<>> THEN Tail(ls) ELSE ls

\* remove_listener, the handle async_add_listener returns: list.remove takes
\* out the first occurrence of the listener, if there is one.
remove_listener(ls, listener) ==
    IF \E i \in 1..Len(ls) : ls[i] = listener
    THEN LET i == CHOOSE i \in 1..Len(ls) :
                     /\ ls[i] = listener
                     /\ \A j \in 1..(i - 1) : ls[j] # listener
         IN  SubSeq(ls, 1, i - 1) \o SubSeq(ls, i + 1, Len(ls))
    ELSE ls

\* SwitchBotLockLogManager.latest_log: the first entry of the cache, if any.
latest_log(logs) == IF logs # <<>> THEN Some(logs[1]) ELSE None

\* SwitchBotLockLastActivitySensor.native_value: the UTC datetime of the
\* timestamp of latest_log, as seconds since the epoch with its zone.
last_activity_native_value(logs) ==
    LET latest == latest_log(logs)
    IN  IF latest # None
        THEN Some([seconds |-> latest[1].timestamp, tz |-> "UTC"])
        ELSE None

\* A faulty async_fetch_logs: a failed get_logs is caught and clears the cache.
async_fetch_logs_clears_on_error(m, dev) ==
    IF ~dev.ok
    THEN [_latest_logs |-> <<>>, tracker |-> m.tracker, result |-> "raised", notified |-> 0]
    ELSE IF dev.logs = <<>>
    THEN [_latest_logs |-> m._latest_logs, tracker |-> m.tracker,
          result |-> "empty", notified |-> 0]
    ELSE LET enriched == _enrich_logs(dev.logs, async_get_users(m._data, MAC))
         IN  [_latest_logs |-> enriched,
              tracker |-> _notify_listeners(m._listeners, m.tracker, enriched),
              result |-> "logs", notified |-> Len(m._listeners)]

\* A faulty async_fetch_logs: the new batch is put in front of the cached one.
async_fetch_logs_merges(m, dev) ==
    IF ~dev.ok
    THEN [_latest_logs |-> m._latest_logs, tracker |-> m.tracker,
          result |-> "raised", notified |-> 0]
    ELSE IF dev.logs = <<>>
    THEN [_latest_logs |-> m._latest_logs, tracker |-> m.tracker,
          result |-> "empty", notified |-> 0]
    ELSE LET enriched == _enrich_logs(dev.logs, async_get_users(m._data, MAC))
                             \o m._latest_logs
         IN  [_latest_logs |-> enriched,
              tracker |-> _notify_listeners(m._listeners, m.tracker, enriched),
              result |-> "logs", notified |-> Len(m._listeners)]

\* A faulty async_fetch_logs: a batch without records is cached and
\* announced like any other.
async_fetch_logs_caches_empty(m, dev) ==
    IF ~dev.ok
    THEN [_latest_logs |-> m._latest_logs, tracker |-> m.tracker,
          result |-> "raised", notified |-> 0]
    ELSE LET enriched == _enrich_logs(dev.logs, async_get_users(m._data, MAC))
         IN  [_latest_logs |-> enriched,
              tracker |-> _notify_listeners(m._listeners, m.tracker, enriched),
              result |-> "logs", notified |-> Len(m._listeners)]

\* A faulty async_fetch_logs: the listeners are called before the cache is
\* assigned, and see the batch of the fetch before.
async_fetch_logs_notifies_first(m, dev) ==
    IF ~dev.ok
    THEN [_latest_logs |-> m._latest_logs, tracker |-> m.tracker,
          result |-> "raised", notified |-> 0]
    ELSE IF dev.logs = <<>>
    THEN [_latest_logs |-> m._latest_logs, tracker |-> m.tracker,
          result |-> "empty", notified |-> 0]
    ELSE LET enriched == _enrich_logs(dev.logs, async_get_users(m._data, MAC))
         IN  [_latest_logs |-> enriched,
              tracker |-> _notify_listeners(m._listeners, m.tracker, m._latest_logs),
              result |-> "logs", notified |-> Len(m._listeners)]

\* SwitchBotLockLogManager.async_fetch_logs from the point where get_logs
\* ends: dev.ok is FALSE when get_logs raised, else dev.logs is what it
\* returned. Nothing after that point suspends, so the rest is one step.
async_fetch_logs(m, dev) ==
    IF ~dev.ok
    THEN [_latest_logs |-> m._latest_logs, tracker |-> m.tracker,
          result |-> "raised", notified |-> 0]
    ELSE IF dev.logs = <<>>
    THEN [_latest_logs |-> m._latest_logs, tracker |-> m.tracker,
          result |-> "empty", notified |-> 0]
    ELSE LET enriched == _enrich_logs(dev.logs, async_get_users(m._data, MAC))
         IN  [_latest_logs |-> enriched,
              tracker |-> _notify_listeners(m._listeners, m.tracker, enriched),
              result |-> "logs", notified |-> Len(m._listeners)]

\* ------------------------------------------------------------- the tasks
VARIABLES
    tasks,                \* the fetch tasks created so far, in creation order
    _pending_fetch_task,  \* SwitchBotLockLogsData._pending_fetch_task: 0 (None) or a task
    _latest_logs,         \* SwitchBotLockLogManager._latest_logs
    _listeners,           \* SwitchBotLockLogManager._listeners
    tracker,              \* the Last User sensor: _current_log, _last_processed_timestamp
    _data,                \* SwitchBotLockUserStore._data
    _store,               \* SwitchBotLockUserStore._store: the document last written
    store_calls,          \* the mutating calls of the user store so far, in call order
    entry_state,          \* the config entry: "loaded", "unloading" or "unloaded"
    since_fetch,          \* stopwatch: seconds since a state-change fetch last began
    last_step             \* what the step that led here did (an observation, never read)

vars == <<tasks, _pending_fetch_task, _latest_logs, _listeners, tracker, _data, _store,
          store_calls, entry_state, since_fetch, last_step>>

\* The sleep a task starts with, in seconds: LOG_FETCH_DELAY after a state
\* change, 1.0 for the initial fetch of async_setup_entry; the service call
\* awaits async_fetch_logs without a sleep.
Delay(kind) ==
    IF kind = "state_change" THEN LOG_FETCH_DELAY
    ELSE IF kind = "initial" THEN INITIAL_FETCH_DELAY
    ELSE 0

\* A task as created. pc is where the coroutine is suspended: "sleeping" in
\* asyncio.sleep, "fetching" in get_logs, "done" once it has ended.
\* remaining is what is left of its sleep; cancel_requested says that
\* Task.cancel() was called and CancelledError is due at its next resumption.
NewTask(kind) ==
    [kind |-> kind,
     pc |-> IF kind = "service" THEN "fetching" ELSE "sleeping",
     remaining |-> Delay(kind),
     cancel_requested |-> FALSE]

\* A task that has ended keeps nothing but its kind.
Ended(task) ==
    [kind |-> task.kind, pc |-> "done", remaining |-> 0, cancel_requested |-> FALSE]

Tasks == DOMAIN tasks
OfKind(kind) == {i \in Tasks : tasks[i].kind = kind}

\* The observation of one step: the event, the task it concerns (0: none;
\* for a step of the user store, the call in store_calls),
\* where that task was suspended before the step, how async_fetch_logs ended
\* for its caller, how the task ended, and the number of listeners invoked.
Step(event, task, at, result, outcome, notified) ==
    [event |-> event, task |-> task, at |-> at, result |-> result,
     outcome |-> outcome, notified |-> notified]

\* A faulty cancel: the pending task is not cancelled.
cancel_ignored(task) == task

\* A faulty cancel: only a task that has not called the device is cancelled.
cancel_only_sleeping(task) ==
    IF task.pc = "sleeping" THEN [task EXCEPT !.cancel_requested = TRUE] ELSE task

\* asyncio.Task.cancel(): no effect on a task that has ended; otherwise the
\* task is resumed with CancelledError at the await it is suspended in.
cancel(task) ==
    IF task.pc = "done" THEN task ELSE [task EXCEPT !.cancel_requested = TRUE]

\* A faulty _async_delayed_fetch_logs: there is no `except Exception`, and
\* the exception of the fetch ends the task.
Outcome_uncaught(kind, result) ==
    IF result = "raised"
    THEN IF kind = "service" THEN "ha_error" ELSE "exception"
    ELSE "returned"

\* How a task that awaits async_fetch_logs ends when the call gives `result`:
\* _async_delayed_fetch_logs logs and swallows an exception, the
\* get_lock_logs service turns it into HomeAssistantError.
Outcome(kind, result) ==
    IF result = "raised"
    THEN IF kind = "service" THEN "ha_error" ELSE "error_logged"
    ELSE "returned"

\* async_setup_entry has run: the manager is empty, both sensors listen, and
\* the initial fetch is scheduled; it is not kept in _pending_fetch_task.
Init ==
    /\ tasks = <<NewTask("initial")>>
    /\ _pending_fetch_task = 0
    /\ _latest_logs = <<>>
    /\ _listeners = <<"last_activity", "last_user">>
    /\ tracker = [_current_log |-> None, _last_processed_timestamp |-> 0]
    /\ _data = InitialTable
    /\ _store = InitialTable
    /\ store_calls = <<>>
    /\ entry_state = "loaded"
    /\ since_fetch = None
    /\ last_step = Step("setup", 1, "none", "none", "running", 0)

\* Whether the task's sleep is still running: a cancelled sleep has no timer.
Timed(task) == task.pc = "sleeping" /\ ~task.cancel_requested /\ task.remaining > 0

\* The stopwatch one second later. It is not running (None) until a step
\* starts it, and it stops counting at LOG_FETCH_DEBOUNCE, the longest time
\* that matters.
Elapse(watch) ==
    IF watch = None THEN None
    ELSE IF watch[1] < LOG_FETCH_DEBOUNCE THEN Some(watch[1] + 1)
    ELSE watch

\* One second passes for every task whose sleep is running, and for the
\* stopwatch if it is running.
Tick ==
    /\ \/ \E i \in Tasks : Timed(tasks[i])
       \/ Elapse(since_fetch) # since_fetch
    /\ tasks' = [i \in Tasks |->
                    IF Timed(tasks[i]) THEN [tasks[i] EXCEPT !.remaining = @ - 1]
                    ELSE tasks[i]]
    /\ since_fetch' = Elapse(since_fetch)
    /\ last_step' = Step("tick", 0, "none", "none", "running", 0)
    /\ UNCHANGED <<_pending_fetch_task, _latest_logs, _listeners, tracker, _data,
                   _store, store_calls, entry_state>>

LockStates == {"None", "locked", "unlocked"}

\* _async_on_lock_state_change(event): returns at once unless both states
\* are given and differ; else cancels the pending task and creates a new one.
\* The callback is subscribed until cancel_listener runs, when the entry has
\* been unloaded.
OnLockStateChange(old_state, new_state) ==
    /\ entry_state # "unloaded"
    /\ Cardinality(OfKind("state_change")) < MaxTriggers
    /\ IF old_state = "None" \/ new_state = "None" \/ old_state = new_state
       THEN /\ last_step' = Step("state_change_ignored", 0, "none", "none", "running", 0)
            /\ UNCHANGED <<tasks, _pending_fetch_task, _latest_logs, _listeners,
                           tracker, _data, _store, store_calls,
                           entry_state, since_fetch>>
       ELSE LET p == _pending_fetch_task
                cancelled == IF p # 0 THEN [tasks EXCEPT ![p] = cancel(tasks[p])] ELSE tasks
            IN  /\ tasks' = Append(cancelled, NewTask("state_change"))
                /\ _pending_fetch_task' = Len(tasks) + 1
                /\ last_step' = Step("state_change", p,
                                     IF p # 0 THEN tasks[p].pc ELSE "none",
                                     "none", "running", 0)
                /\ UNCHANGED <<_latest_logs, _listeners, tracker, _data,
                   _store, store_calls,
                               entry_state, since_fetch>>

\* async_get_lock_logs once it has its log manager: the call awaits
\* async_fetch_logs, and so get_logs, at once.
ServiceFetchBegins ==
    /\ Cardinality(OfKind("service")) < MaxServiceCalls
    /\ tasks' = Append(tasks, NewTask("service"))
    /\ UNCHANGED <<_pending_fetch_task, _latest_logs, _listeners, tracker, _data,
                   _store, store_calls, entry_state, since_fetch>>

\* async_get_lock_logs for the device of the entry, whose manager is
\* registered while the entry is loaded.
ServiceGetLockLogs ==
    /\ entry_state = "loaded"
    /\ ServiceFetchBegins
    /\ last_step' = Step("service_call", Len(tasks) + 1, "none", "none", "running", 0)

\* _async_delayed_fetch_logs: asyncio.sleep(delay) is over and the task
\* calls async_fetch_logs, which awaits get_logs.
SleepEnds(i) ==
    /\ tasks[i].pc = "sleeping"
    /\ ~tasks[i].cancel_requested
    /\ tasks[i].remaining = 0
    /\ tasks' = [tasks EXCEPT ![i].pc = "fetching"]
    /\ last_step' = Step("sleep_elapsed", i, "sleeping", "none", "running", 0)
    /\ UNCHANGED <<_pending_fetch_task, _latest_logs, _listeners, tracker, _data,
                   _store, store_calls, entry_state>>

\* The step with the stopwatch left alone.
SleepElapsed(i) == SleepEnds(i) /\ UNCHANGED since_fetch

\* The same step, observed: the stopwatch restarts when the fetch of a
\* state-change task begins.
SleepElapsedTimed(i) ==
    /\ SleepEnds(i)
    /\ since_fetch' = IF tasks[i].kind = "state_change" THEN Some(0) ELSE since_fetch

\* get_logs ends, with a batch or with an exception, and async_fetch_logs
\* runs to its end, and so does the task. The observation of this step also
\* has the batch get_logs gave, as field `logs`.
DeviceEnds(i, dev) ==
    /\ tasks[i].pc = "fetching"
    /\ ~tasks[i].cancel_requested
    /\ LET m == [_latest_logs |-> _latest_logs, _listeners |-> _listeners,
                 tracker |-> tracker, _data |-> _data]
           r == async_fetch_logs(m, dev)
       IN  /\ _latest_logs' = r._latest_logs
           /\ tracker' = r.tracker
           /\ tasks' = [tasks EXCEPT ![i] = Ended(tasks[i])]
           /\ last_step' = Step(IF dev.ok THEN "device_returned" ELSE "device_failed",
                                i, "fetching", r.result,
                                Outcome(tasks[i].kind, r.result), r.notified)
                                @@ [logs |-> dev.logs]
    /\ UNCHANGED <<_pending_fetch_task, _listeners, _data,
                   _store, store_calls,
                   entry_state, since_fetch>>

DeviceReturns(i, batches) ==
    /\ tasks[i].pc = "fetching"
    /\ \E logs \in batches : DeviceEnds(i, [ok |-> TRUE, logs |-> logs])

DeviceFails(i) == DeviceEnds(i, [ok |-> FALSE, logs |-> <<>>])

\* The cancelled task is resumed with CancelledError, in the sleep or in
\* get_logs; _async_delayed_fetch_logs logs it and raises it again.
CancelDelivered(i) ==
    /\ tasks[i].pc # "done"
    /\ tasks[i].cancel_requested
    /\ tasks' = [tasks EXCEPT ![i] = Ended(tasks[i])]
    /\ last_step' = Step("cancel_delivered", i, tasks[i].pc,
                         IF tasks[i].pc = "fetching" THEN "cancelled" ELSE "none",
                         "cancelled", 0)
    /\ UNCHANGED <<_pending_fetch_task, _latest_logs, _listeners, tracker, _data,
                   _store, store_calls,
                   entry_state, since_fetch>>

\* The locks whose names the services set, the user ids and the names given.
StoreMacs == {MAC, NEW_MAC}
UserIds == {1, 3}
NewNames == {"Dana"}

\* A call of the store as made: its arguments, and where it is suspended,
\* "saving" in async_save or "done".
StoreCall(op, mac, user_id, name, pc) ==
    [op |-> op, mac |-> mac, user_id |-> user_id, name |-> name, pc |-> pc]

\* Where a mutating call is after its synchronous part: in async_save, or
\* at its end if it raised or does not save.
SavePc(r) == IF r.saves /\ ~r.raised THEN "saving" ELSE "done"

\* The synchronous part of a mutating call, up to its await of async_save:
\* r is what the call made of the table.
StoreUpdate(op, mac, user_id, name, r) ==
    /\ Len(store_calls) < MaxStoreCalls
    /\ _data' = r._data
    /\ store_calls' = Append(store_calls, StoreCall(op, mac, user_id, name, SavePc(r)))
    /\ UNCHANGED <<tasks, _pending_fetch_task, _latest_logs, _listeners, tracker,
                   _store, entry_state, since_fetch>>

\* The observation of that part.
StoreStep(op, r) ==
    Step(op, Len(store_calls) + 1, "none",
         IF r.raised THEN "raised" ELSE "none",
         IF SavePc(r) = "saving" THEN "running"
         ELSE IF r.raised THEN "exception" ELSE "returned", 0)

\* A mutating call of the store, up to its await of async_save.
StoreMutation(op, mac, user_id, name, r) ==
    /\ StoreUpdate(op, mac, user_id, name, r)
    /\ last_step' = StoreStep(op, r)

\* async_set_lock_user_name for a configured device: async_set_user.
SetUser(mac, user_id, name) ==
    StoreMutation("set_user", mac, user_id, name, async_set_user(_data, mac, user_id, name))

\* async_delete_lock_user_name for a configured device: async_delete_user.
DeleteUser(mac, user_id) ==
    StoreMutation("delete_user", mac, user_id, "", async_delete_user(_data, mac, user_id))

\* The names given to locks.
LockNames == {"Front door"}

\* A call of async_set_lock_name; the call has no user id (0).
SetLockName(mac, name) ==
    StoreMutation("set_lock_name", mac, 0, name, async_set_lock_name(_data, mac, name))

\* async_save of call k ends: the table as it is now has been written, and
\* the call returns.
SaveCompletes(k) ==
    /\ store_calls[k].pc = "saving"
    /\ _store' = _data
    /\ store_calls' = [store_calls EXCEPT ![k].pc = "done"]
    /\ last_step' = Step("save_written", k, "saving", "none", "returned", 0)
    /\ UNCHANGED <<tasks, _pending_fetch_task, _latest_logs, _listeners, tracker, _data,
                   entry_state, since_fetch>>

\* The device of the entry, and a device that no entry is configured for.
DEVICE_ID == "lock-1"
OTHER_DEVICE_ID == "lock-2"
DeviceIds == {DEVICE_ID, OTHER_DEVICE_ID}

\* hass.data[DOMAIN]["log_managers"], each manager with the device of its
\* entry: the manager of the one entry, until async_unload_entry pops it.
LogManagers ==
    IF entry_state = "loaded" THEN <<[device_id |-> DEVICE_ID, mac |-> MAC]>> ELSE <<>>

\* A faulty _find_log_manager_for_device: the first manager there is.
_find_log_manager_first(log_managers, device_id) ==
    IF log_managers # <<>> THEN Some(log_managers[1]) ELSE None

\* _find_log_manager_for_device: the first manager whose entry has the
\* device id asked for, or None.
_find_log_manager_for_device(log_managers, device_id) ==
    LET matching == {i \in 1..Len(log_managers) : log_managers[i].device_id = device_id}
    IN  IF matching # {}
        THEN Some(log_managers[CHOOSE i \in matching : \A j \in matching : i <= j])
        ELSE None

\* What a step of a service handler keeps of the call.
Request(service, device_id) == [service |-> service, device_id |-> device_id]

\* `if not log_manager: raise ServiceValidationError(...)`.
ServiceRejected(service, device_id) ==
    /\ last_step' = Step("service_rejected", 0, "none", "none", "validation_error", 0)
                        @@ Request(service, device_id)
    /\ UNCHANGED <<tasks, _pending_fetch_task, _latest_logs, _listeners, tracker, _data,
                   _store, store_calls, entry_state, since_fetch>>

\* The get_lock_logs service, for any device.
async_get_lock_logs(device_id) ==
    LET log_manager == _find_log_manager_for_device(LogManagers, device_id)
    IN  IF log_manager = None
        THEN ServiceRejected("get_lock_logs", device_id)
        ELSE /\ ServiceFetchBegins
             /\ last_step' = Step("service_call", Len(tasks) + 1, "none", "none",
                                  "running", 0)
                                 @@ Request("get_lock_logs", device_id)

\* The set_lock_user_name service, for any device.
async_set_lock_user_name(device_id, user_id, name) ==
    LET log_manager == _find_log_manager_for_device(LogManagers, device_id)
    IN  IF log_manager = None
        THEN ServiceRejected("set_lock_user_name", device_id)
        ELSE LET mac == log_manager[1].mac
                 r == async_set_user(_data, mac, user_id, name)
             IN  /\ StoreUpdate("set_user", mac, user_id, name, r)
                 /\ last_step' = StoreStep("set_user", r)
                                     @@ Request("set_lock_user_name", device_id)

\* The delete_lock_user_name service, for any device.
async_delete_lock_user_name(device_id, user_id) ==
    LET log_manager == _find_log_manager_for_device(LogManagers, device_id)
    IN  IF log_manager = None
        THEN ServiceRejected("delete_lock_user_name", device_id)
        ELSE LET mac == log_manager[1].mac
                 r == async_delete_user(_data, mac, user_id)
             IN  /\ StoreUpdate("delete_user", mac, user_id, "", r)
                 /\ last_step' = StoreStep("delete_user", r)
                                     @@ Request("delete_lock_user_name", device_id)

\* The sensors of the entry, by the name of their listener.
Sensors == {"last_activity", "last_user"}

\* async_unload_entry up to its await: the log manager is taken out of
\* hass.data and the unloading of the platforms begins. No task is cancelled.
UnloadEntry ==
    /\ entry_state = "loaded"
    /\ entry_state' = "unloading"
    /\ last_step' = Step("unload_entry", 0, "none", "none", "running", 0)
    /\ UNCHANGED <<tasks, _pending_fetch_task, _latest_logs, _listeners, tracker, _data,
                   _store, store_calls, since_fetch>>

\* The unsubscribe handle of a sensor is called, as the removal of the
\* sensor's entity does (async_on_remove) while the platforms are unloaded;
\* nothing keeps the handle from being called again.
RemoveListener(listener) ==
    /\ entry_state = "unloading"
    /\ _listeners' = remove_listener(_listeners, listener)
    /\ last_step' = Step("remove_listener", 0, "none", "none", "returned", 0)
                        @@ [listener |-> listener]
    /\ UNCHANGED <<tasks, _pending_fetch_task, _latest_logs, tracker, _data,
                   _store, store_calls, entry_state, since_fetch>>

\* async_unload_platforms has removed the entities and async_unload_entry
\* returns; the entry's on_unload callbacks run, cancel_listener among them.
UnloadCompletes ==
    /\ entry_state = "unloading"
    /\ _listeners = <<>>
    /\ entry_state' = "unloaded"
    /\ last_step' = Step("unloaded", 0, "none", "none", "returned", 0)
    /\ UNCHANGED <<tasks, _pending_fetch_task, _latest_logs, _listeners, tracker, _data,
                   _store, store_calls, since_fetch>>

\* The whole system: the clock, the lock's state changes, the service, and
\* the fetch tasks; get_logs returns one of FewBatches.
Next ==
    \/ Tick
    \/ \E old_state, new_state \in LockStates : OnLockStateChange(old_state, new_state)
    \/ ServiceGetLockLogs
    \/ \E i \in Tasks : SleepElapsed(i)
    \/ \E i \in Tasks : DeviceReturns(i, FewBatches)
    \/ \E i \in Tasks : DeviceFails(i)
    \/ \E i \in Tasks : CancelDelivered(i)

Spec == Init /\ [][Next]_vars

\* The fetches of the initial task and of the service, with every batch
\* get_logs can return; the lock's state does not change.
NextTracker ==
    \/ Tick
    \/ ServiceGetLockLogs
    \/ \E i \in Tasks : SleepElapsed(i)
    \/ \E i \in Tasks : DeviceReturns(i, DeviceBatches)
    \/ \E i \in Tasks : DeviceFails(i)

SpecTracker == Init /\ [][NextTracker]_vars

\* The initial fetch alone, with every batch of EnrichBatches: what the
\* enrichment makes of each record.
NextEnrich ==
    \/ Tick
    \/ \E i \in Tasks : SleepElapsed(i)
    \/ \E i \in Tasks : DeviceReturns(i, EnrichBatches)
    \/ \E i \in Tasks : DeviceFails(i)

SpecEnrich == Init /\ [][NextEnrich]_vars

\* The services that name and unname users, the writes of the store, and
\* the fetches of the get_lock_logs service.
NextStore ==
    \/ \E mac \in StoreMacs, user_id \in UserIds, name \in NewNames :
          SetUser(mac, user_id, name)
    \/ \E mac \in StoreMacs, user_id \in UserIds : DeleteUser(mac, user_id)
    \/ \E k \in DOMAIN store_calls : SaveCompletes(k)
    \/ ServiceGetLockLogs
    \/ \E i \in Tasks : DeviceReturns(i, FewBatches)
    \/ \E i \in Tasks : DeviceFails(i)

SpecStore == Init /\ [][NextStore]_vars

\* Every mutating call of the store, the writes, and the fetches of the
\* get_lock_logs service, whose enrichment reads the table.
NextPersist ==
    \/ \E mac \in StoreMacs, user_id \in UserIds, name \in NewNames :
          SetUser(mac, user_id, name)
    \/ \E mac \in StoreMacs, user_id \in UserIds : DeleteUser(mac, user_id)
    \/ \E mac \in StoreMacs, name \in LockNames : SetLockName(mac, name)
    \/ \E k \in DOMAIN store_calls : SaveCompletes(k)
    \/ ServiceGetLockLogs
    \/ \E i \in Tasks : DeviceReturns(i, FewBatches)
    \/ \E i \in Tasks : DeviceFails(i)

SpecPersist == Init /\ [][NextPersist]_vars

\* The lock's state changes and the delayed fetches they start, with the
\* stopwatch restarted whenever the fetch of a state-change task begins.
NextDebounce ==
    \/ Tick
    \/ \E old_state, new_state \in LockStates : OnLockStateChange(old_state, new_state)
    \/ \E i \in Tasks : SleepElapsedTimed(i)
    \/ \E i \in Tasks : DeviceReturns(i, FewBatches)
    \/ \E i \in Tasks : DeviceFails(i)
    \/ \E i \in Tasks : CancelDelivered(i)

SpecDebounce == Init /\ [][NextDebounce]_vars

\* The unloading of the entry among the lock's state changes and the delayed
\* fetches.
NextUnload ==
    \/ Tick
    \/ \E old_state, new_state \in LockStates : OnLockStateChange(old_state, new_state)
    \/ \E i \in Tasks : SleepElapsed(i)
    \/ \E i \in Tasks : DeviceReturns(i, FewBatches)
    \/ \E i \in Tasks : DeviceFails(i)
    \/ \E i \in Tasks : CancelDelivered(i)
    \/ UnloadEntry
    \/ \E listener \in Sensors : RemoveListener(listener)
    \/ UnloadCompletes

SpecUnload == Init /\ [][NextUnload]_vars

\* The three services, called for either device while the entry is loaded
\* and after its manager has been popped, with the fetches and the writes
\* they start.
NextServices ==
    \/ \E device_id \in DeviceIds : async_get_lock_logs(device_id)
    \/ \E device_id \in DeviceIds, user_id \in UserIds, name \in NewNames :
          async_set_lock_user_name(device_id, user_id, name)
    \/ \E device_id \in DeviceIds, user_id \in UserIds :
          async_delete_lock_user_name(device_id, user_id)
    \/ \E k \in DOMAIN store_calls : SaveCompletes(k)
    \/ \E i \in Tasks : DeviceReturns(i, FewBatches)
    \/ \E i \in Tasks : DeviceFails(i)
    \/ UnloadEntry

SpecServices == Init /\ [][NextServices]_vars

\* ------------------------------------------------------------ properties
\* A payload the Last User sensor may report: at least six characters and
\* not the twelve-zero sentinel.
UserPayload(payload) == Len(payload) >= 6 /\ payload # "000000000000"

\* The positions of `logs` whose entry is newer than `last` and reportable.
Qualifying(logs, last) ==
    {i \in 1..Len(logs) : logs[i].timestamp > last /\ UserPayload(logs[i].payload)}

Entries(logs) == {logs[i] : i \in 1..Len(logs)}

Min(S) == CHOOSE x \in S : \A y \in S : x <= y

\* The step just taken replaced the cache and notified the listeners.
Updated(step) == step.event = "device_returned" /\ step.result = "logs"

\* C1: over any sequence of log updates, also of overlapping fetches, the
\* Last User sensor's _last_processed_timestamp never decreases.
C1_TimestampNeverDecreases ==
    [][tracker'._last_processed_timestamp >= tracker._last_processed_timestamp]_vars

\* An update was handled whose batch holds a user action older than the mark,
\* and the sensor kept the entry and the mark it had.
C1_Witness ==
    /\ Updated(last_step)
    /\ tracker._current_log # None
    /\ tracker._current_log[1] \notin Entries(_latest_logs)
    /\ \E i \in 1..Len(_latest_logs) :
          /\ UserPayload(_latest_logs[i].payload)
          /\ _latest_logs[i].timestamp < tracker._last_processed_timestamp

\* C2: when no entry of the cache is both newer than the mark and valid, the
\* sensor's entry and mark stay as they are; and the entry, once set, is
\* never absent again.
C2_NoMatchKeepsState ==
    [][/\ Qualifying(_latest_logs', tracker._last_processed_timestamp) = {}
          => tracker' = tracker
       /\ tracker._current_log # None => tracker'._current_log # None]_vars

\* An update was handled with every timestamp of the batch at or below the
\* mark, by a sensor that holds an entry of an earlier batch.
C2_Witness ==
    /\ Updated(last_step)
    /\ tracker._current_log # None
    /\ tracker._current_log[1] \notin Entries(_latest_logs)
    /\ \A i \in 1..Len(_latest_logs) :
          _latest_logs[i].timestamp <= tracker._last_processed_timestamp

\* C3: the entry accepted on an update is a newest qualifying one: no
\* qualifying entry of the batch has a greater timestamp, in whatever order
\* the batch is.
C3_AcceptsNewestQualifying ==
    [][Updated(last_step') =>
          \A i \in Qualifying(_latest_logs', tracker._last_processed_timestamp) :
              /\ tracker'._current_log # None
              /\ tracker'._current_log[1].timestamp >= _latest_logs'[i].timestamp]_vars

C5_NeverAcceptsSentinel ==
    /\ [](tracker._current_log # None => UserPayload(tracker._current_log[1].payload))
    /\ [][tracker'._last_processed_timestamp # tracker._last_processed_timestamp =>
             \E i \in 1..Len(_latest_logs') :
                 /\ UserPayload(_latest_logs'[i].payload)
                 /\ _latest_logs'[i].timestamp = tracker'._last_processed_timestamp]_vars

\* The batch began with an unreportable entry newer than everything
\* accepted, and the sensor took the user action behind it.
C5_Witness ==
    /\ Updated(last_step)
    /\ Len(_latest_logs) >= 2
    /\ ~UserPayload(_latest_logs[1].payload)
    /\ _latest_logs[1].timestamp > tracker._last_processed_timestamp
    /\ tracker._current_log = Some(_latest_logs[2])

\* C6: whenever the sensor holds an entry, the entry's timestamp is at least
\* the mark.
C6_EntryNotOlderThanMark ==
    tracker._current_log # None =>
        tracker._current_log[1].timestamp >= tracker._last_processed_timestamp

\* The sensor has accepted a second, newer entry.
C6_Witness ==
    /\ tracker._current_log # None
    /\ tracker._current_log[1].timestamp > 1
    /\ tracker._current_log[1] \notin Entries(_latest_logs)

\* A delayed fetch that is scheduled or in flight.
Live(i) ==
    /\ tasks[i].kind \in {"initial", "state_change"}
    /\ tasks[i].pc \in {"sleeping", "fetching"}
    /\ ~tasks[i].cancel_requested

\* C7: at most one delayed fetch, the initial one included, is scheduled or
\* in flight at any moment.
C7_SingleFlight == Cardinality({i \in Tasks : Live(i)}) <= 1

\* A state-change task that a later state change has replaced.
Superseded(i) == tasks[i].kind = "state_change" /\ i # _pending_fetch_task

\* C8: of the tasks scheduled by a burst of state changes only the last one
\* calls the device, and only when its delay is over; nothing cancels it
\* while it is the last.
C8_Debounce ==
    /\ [](_pending_fetch_task # 0 => ~tasks[_pending_fetch_task].cancel_requested)
    /\ [][\A i \in Tasks :
             (tasks[i].kind = "state_change" /\ tasks[i].pc = "sleeping"
                  /\ tasks'[i].pc = "fetching")
             => (i = _pending_fetch_task /\ tasks[i].remaining = 0)]_vars

\* A state change came while the task of an earlier one was sleeping, and
\* that task has ended by cancellation.
C8_Witness ==
    /\ last_step.event = "cancel_delivered"
    /\ last_step.at = "sleeping"
    /\ tasks[last_step.task].kind = "state_change"
    /\ tasks[_pending_fetch_task].pc = "sleeping"

\* C9: a task replaced by debouncing takes no step but its ending by
\* cancellation, which leaves the cache and the sensor alone and notifies
\* nobody, whether it was sleeping or awaiting the device.
C9_CancelledFetchHasNoEffect ==
    [][\A i \in Tasks :
          (Superseded(i) /\ tasks[i].pc # "done" /\ tasks'[i] # tasks[i])
          => /\ tasks'[i].pc = "done"
             /\ last_step' = Step("cancel_delivered", i, tasks[i].pc,
                                  last_step'.result, "cancelled", 0)
             /\ UNCHANGED <<_latest_logs, tracker>>]_vars

\* A task was cancelled while it awaited the device, with a batch cached.
C9_Witness ==
    /\ last_step.event = "cancel_delivered"
    /\ last_step.at = "fetching"
    /\ _latest_logs # <<>>

\* C10: when get_logs fails, async_fetch_logs raises to its caller, the
\* cache and the sensor are as before, and no listener is invoked.
C10_FailedFetchPropagates ==
    [][last_step'.event = "device_failed" =>
          /\ last_step'.result = "raised"
          /\ last_step'.outcome \in {"error_logged", "ha_error"}
          /\ last_step'.notified = 0
          /\ UNCHANGED <<_latest_logs, tracker>>]_vars

\* A fetch failed after a batch had been cached and accepted.
C10_Witness ==
    /\ last_step.event = "device_failed"
    /\ _latest_logs # <<>>
    /\ tracker._current_log # None

\* What enrichment makes of a batch with the names stored for this lock.
EnrichedForm(logs) == _enrich_logs(logs, async_get_users(_data, MAC))

\* C11 as stated: the cache is empty at creation, and after every fetch that
\* completes without error it is the enriched form of the batch that fetch
\* returned, also when the batch is empty.
C11_CacheIsLastBatch ==
    /\ [](last_step.event = "setup" => _latest_logs = <<>>)
    /\ [][last_step'.event = "device_returned" =>
             _latest_logs' = EnrichedForm(last_step'.logs)]_vars

\* C11 amended: the cache is empty at creation; after every fetch that
\* completes without error and returns at least one record it is the
\* enriched form of exactly that batch, and a fetch that returns no record
\* leaves the cache as it was.
C11_CacheIsLastNonEmptyBatch ==
    /\ [](last_step.event = "setup" => _latest_logs = <<>>)
    /\ [][last_step'.event = "device_returned" =>
             IF last_step'.logs # <<>>
             THEN _latest_logs' = EnrichedForm(last_step'.logs)
             ELSE _latest_logs' = _latest_logs]_vars

\* A fetch that returned one record has replaced an earlier batch: the
\* cache is that one record, and the entry the sensor took from the earlier
\* batch is no longer in it.
C11_Witness ==
    /\ last_step.event = "device_returned"
    /\ Len(last_step.logs) = 1
    /\ _latest_logs = EnrichedForm(last_step.logs)
    /\ tracker._current_log # None
    /\ tracker._current_log[1] \notin Entries(_latest_logs)

\* The tasks of _async_delayed_fetch_logs.
Delayed(i) == tasks[i].kind \in {"initial", "state_change"}

\* C12: when the fetch of a delayed task fails, the task logs the error and
\* ends without raising, the cache and the sensor stay as they are, and no
\* task is created by that step; a task that has ended never runs again, and
\* tasks are only created by a state change or a service call (the setup
\* created the first); a cancelled task ends as cancelled, not as an error.
C12_DelayedFailureIsSwallowed ==
    /\ [][\A i \in Tasks :
             (last_step'.event = "device_failed" /\ last_step'.task = i /\ Delayed(i))
             => /\ last_step'.outcome = "error_logged"
                /\ tasks' = [tasks EXCEPT ![i] = Ended(tasks[i])]
                /\ UNCHANGED <<_latest_logs, tracker, _pending_fetch_task>>]_vars
    /\ [][/\ \A i \in Tasks : tasks[i].pc = "done" => tasks'[i] = tasks[i]
          /\ Len(tasks') > Len(tasks)
             => last_step'.event \in {"state_change", "service_call"}]_vars
    /\ [][last_step'.event = "cancel_delivered" =>
             /\ last_step'.outcome = "cancelled"
             /\ tasks[last_step'.task].cancel_requested]_vars

\* The fetch of a state-change task failed with a batch cached: the task
\* has ended, the error was logged, and no other task is scheduled.
C12_Witness ==
    /\ last_step.event = "device_failed"
    /\ last_step.outcome = "error_logged"
    /\ tasks[last_step.task].kind = "state_change"
    /\ _latest_logs # <<>>
    /\ \A i \in Tasks : tasks[i].pc = "done"

\* C13: the value of the Last Activity sensor, read after each update of the
\* cache, never goes back in time, whatever batches the fetches of the
\* timer and of the service return and in whatever order they end.
C13_LastActivityNeverDecreases ==
    [][LET before == last_activity_native_value(_latest_logs)
           after == last_activity_native_value(_latest_logs')
       IN  before # None =>
             /\ after # None
             /\ after[1].seconds >= before[1].seconds]_vars

\* C14: latest_log is absent exactly when the cache is empty, and otherwise
\* no entry of the cache has a greater timestamp than latest_log, in
\* whatever order the device gave the batch.
C14_LatestLogIsNewest ==
    LET latest == latest_log(_latest_logs)
    IN  /\ latest = None <=> _latest_logs = <<>>
        /\ latest # None =>
              \A i \in 1..Len(_latest_logs) :
                  _latest_logs[i].timestamp <= latest[1].timestamp

\* The labels the enrichment is to give for the codes the library knows.
SourceLabels == (1 :> "Manual") @@ (2 :> "Auto Lock")
ActionLabels == (1 :> "lock") @@ (2 :> "unlock")

\* Payloads of the enriched batches that carry no user id: the id byte is
\* zero, negative or not hexadecimal, a leading byte is wrong, or the
\* payload is short.
NoUserPayloads ==
    {"590100000000", "5901zz000000", "5901-1000000", "580105000000",
     "590205000000", "5901"}

\* C15: the enriched batch has one record per raw record, in the same order,
\* with the raw timestamp, source, action and payload; a known code gets its
\* label and an unknown one a fallback that holds the code; a payload
\* without a user id gives absent user fields; and every record comes out
\* as it would alone, whatever the other records of the batch are.
C15_EnrichmentIsRecordwise ==
    [][Updated(last_step') =>
          LET raw == last_step'.logs
              out == _latest_logs'
          IN  /\ Len(out) = Len(raw)
              /\ \A i \in 1..Len(raw) :
                    /\ out[i].timestamp = raw[i].timestamp
                    /\ out[i].source = raw[i].source
                    /\ out[i].action = raw[i].action
                    /\ out[i].payload = raw[i].payload
                    /\ out[i].source_display =
                          IF raw[i].source \in DOMAIN SourceLabels
                          THEN SourceLabels[raw[i].source]
                          ELSE "Unknown (Source " \o ToString(raw[i].source) \o ")"
                    /\ out[i].action_name =
                          IF raw[i].action \in DOMAIN ActionLabels
                          THEN ActionLabels[raw[i].action]
                          ELSE "unknown_" \o ToString(raw[i].action)
                    /\ raw[i].payload \in NoUserPayloads
                          => out[i].user_id = None /\ out[i].user_name = None
                    /\ <<out[i]>> = EnrichedForm(<<raw[i]>>)]_vars

\* A batch was enriched whose first record has a payload that does not
\* parse and an unknown action code, and whose second record got its user
\* id, its name and its labels.
C15_Witness ==
    /\ Updated(last_step)
    /\ Len(_latest_logs) = 2
    /\ _latest_logs[1].payload = "5901zz000000"
    /\ _latest_logs[1].user_id = None
    /\ _latest_logs[1].action_name = "unknown_9"
    /\ _latest_logs[2].user_id = Some(3)
    /\ _latest_logs[2].user_name = Some("Alice")
    /\ _latest_logs[2].source_display = "Manual"

\* The names the table has for this manager's lock, read from the table
\* itself.
OwnNames == IF MAC \in DOMAIN _data THEN _data[MAC].users ELSE <<>>

\* C16: in every record of a batch just enriched, user_name is present
\* exactly when user_id is present and its string form is a key of the
\* names of this manager's lock at that moment, and then it is the name
\* mapped there; the names of another lock are never used.
C16_NameFromOwnLock ==
    [][Updated(last_step') =>
          \A i \in 1..Len(_latest_logs') :
              LET e == _latest_logs'[i]
                  mapped == e.user_id # None /\ ToString(e.user_id[1]) \in DOMAIN OwnNames
              IN  /\ e.user_name # None <=> mapped
                  /\ mapped => e.user_name = Some(OwnNames[ToString(e.user_id[1])])]_vars

\* A batch was enriched in which user 1 has no name, although the other
\* lock has a name for user 1, after a service call gave this lock's user 3
\* a new name.
C16_Witness ==
    /\ Updated(last_step)
    /\ \E i \in 1..Len(_latest_logs) :
          /\ _latest_logs[i].user_id = Some(1)
          /\ _latest_logs[i].user_name = None
    /\ "1" \in DOMAIN _data[OTHER_MAC].users
    /\ "3" \in DOMAIN OwnNames
    /\ OwnNames["3"] = "Dana"

\* The bytes of a payload, counted from 0, as two-character strings.
Byte(payload, n) == SubSeq(payload, 2 * n + 1, 2 * n + 2)

\* The payload begins with 59 and then 01 or 03.
HeaderMatches(payload) ==
    Len(payload) >= 6 /\ Byte(payload, 0) = "59" /\ Byte(payload, 1) \in {"01", "03"}

\* The payload has the form 59, 01 or 03, XX, 00 00: after a matching
\* header and the byte XX come two zero bytes, with or without one more
\* byte between XX and them.
MatchesPattern(payload) ==
    /\ HeaderMatches(payload)
    /\ \/ Len(payload) >= 10 /\ SubSeq(payload, 7, 10) = "0000"
       \/ Len(payload) >= 12 /\ SubSeq(payload, 9, 12) = "0000"

\* The value of the bytes that stand at position 2 of the payloads with a
\* matching header, read as hexadecimal; the other such bytes are no
\* hexadecimal number ("zz") or a negative one ("-1").
ByteValue == ("00" :> 0) @@ ("03" :> 3) @@ ("05" :> 5) @@ ("fF" :> 255)

\* C17 as stated: every cached record whose payload is not of the form
\* 59, 01 or 03, XX, 00 00 has no user id, also when only the bytes after
\* XX depart from the form.
C17_AbsentUnlessPattern ==
    \A i \in 1..Len(_latest_logs) :
        ~MatchesPattern(_latest_logs[i].payload) => _latest_logs[i].user_id = None

\* C17 amended: a cached record has no user id when its payload is shorter
\* than six characters, or byte 0 is not 59, or byte 1 is neither 01 nor 03,
\* or byte 2 is zero, negative or no hexadecimal number; the bytes after
\* byte 2 are not looked at, and a payload with a matching header and a
\* positive byte 2 has that user id whatever follows.
C17_AbsentUnlessHeaderAndId ==
    \A i \in 1..Len(_latest_logs) :
        LET payload == _latest_logs[i].payload
            positive == /\ HeaderMatches(payload)
                        /\ Byte(payload, 2) \in DOMAIN ByteValue
                        /\ ByteValue[Byte(payload, 2)] > 0
        IN  IF positive
            THEN _latest_logs[i].user_id = Some(ByteValue[Byte(payload, 2)])
            ELSE _latest_logs[i].user_id = None

\* The cache holds a record whose payload has non-zero bytes after the id
\* and which has the user id 5, next to a record whose byte 1 is 02 and
\* which has no user id.
C17_Witness ==
    /\ Len(_latest_logs) = 2
    /\ _latest_logs[1].payload = "590305010200"
    /\ _latest_logs[1].user_id = Some(5)
    /\ _latest_logs[2].payload = "590205000000"
    /\ _latest_logs[2].user_id = None

\* The general part of C18: a user id is absent or a positive integer, and
\* for a payload with a matching header it is the value of byte 2 if that
\* is a positive hexadecimal number, and absent if it is zero.
ByteTwoDecides(e) ==
    /\ e.user_id # None => e.user_id[1] \in Nat \ {0}
    /\ (HeaderMatches(e.payload) /\ Byte(e.payload, 2) \in DOMAIN ByteValue) =>
          e.user_id = IF ByteValue[Byte(e.payload, 2)] # 0
                      THEN Some(ByteValue[Byte(e.payload, 2)])
                      ELSE None

\* C18 as stated: the general part, and its two examples: the payload
\* 590103050000 gives 5 and the payload 590103000000 gives absent.
C18_ByteTwoWithExamples ==
    \A i \in 1..Len(_latest_logs) :
        /\ ByteTwoDecides(_latest_logs[i])
        /\ _latest_logs[i].payload = "590103050000" => _latest_logs[i].user_id = Some(5)
        /\ _latest_logs[i].payload = "590103000000" => _latest_logs[i].user_id = None

\* C18 amended: the general part, with examples that read byte 2: the
\* payloads 590103050000 and 590103000000 give 3, 590305010200 gives 5,
\* 5903fF000000 gives 255, and 590100000000 and 5901-1000000 give absent.
C18_ByteTwoDecides ==
    \A i \in 1..Len(_latest_logs) :
        LET e == _latest_logs[i]
        IN  /\ ByteTwoDecides(e)
            /\ e.payload \in {"590103050000", "590103000000"} => e.user_id = Some(3)
            /\ e.payload = "590305010200" => e.user_id = Some(5)
            /\ e.payload = "5903fF000000" => e.user_id = Some(255)
            /\ e.payload \in {"590100000000", "5901-1000000"} => e.user_id = None

\* The cache holds the two payloads of the examples, both with user id 3.
C18_Witness ==
    /\ Len(_latest_logs) = 2
    /\ _latest_logs[1].payload = "590103050000"
    /\ _latest_logs[2].payload = "590103000000"
    /\ _latest_logs[1].user_id = Some(3)
    /\ _latest_logs[2].user_id = Some(3)

\* The names the table `d` has for the lock `mac`, and the lock's own name,
\* read from the table itself; a lock without an entry has neither.
NamesOf(d, mac) == IF mac \in DOMAIN d THEN d[mac].users ELSE <<>>
LockNameOf(d, mac) == IF mac \in DOMAIN d THEN d[mac].name ELSE None

\* The step just taken was the call of set_user or delete_user.
StoreCalled(step) == step.event \in {"set_user", "delete_user"}

\* Between two tables, everything but the entry of `key` for the lock `mac`
\* is the same: the other names of that lock, the lock's name, and the
\* entries of the other locks, none of which appears or disappears.
OnlyKeyDiffers(d, e, mac, key) ==
    /\ \A k \in (DOMAIN NamesOf(d, mac) \cup DOMAIN NamesOf(e, mac)) \ {key} :
          /\ k \in DOMAIN NamesOf(d, mac)
          /\ k \in DOMAIN NamesOf(e, mac)
          /\ NamesOf(d, mac)[k] = NamesOf(e, mac)[k]
    /\ LockNameOf(d, mac) = LockNameOf(e, mac)
    /\ \A m \in (DOMAIN d \cup DOMAIN e) \ {mac} :
          m \in DOMAIN d /\ m \in DOMAIN e /\ d[m] = e[m]

\* C19: the step of set_user(lock, id, name) leaves str(id) mapped to name
\* for that lock, the step of delete_user(lock, id) leaves the lock without
\* an entry for str(id), and both leave everything else in the table as it
\* was; no other step changes the table, so this is what get_users gives
\* when the call returns.
C19_StoreCallFrame ==
    [][IF StoreCalled(last_step')
       THEN LET call == store_calls'[last_step'.task]
                key == ToString(call.user_id)
            IN  /\ OnlyKeyDiffers(_data, _data', call.mac, key)
                /\ IF call.op = "set_user"
                   THEN /\ key \in DOMAIN NamesOf(_data', call.mac)
                        /\ NamesOf(_data', call.mac)[key] = call.name
                   ELSE key \notin DOMAIN NamesOf(_data', call.mac)
       ELSE _data' = _data]_vars

\* User 1 of this lock was named and then user 3 unnamed: the lock has the
\* name of user 1 only, and the other lock has its two names.
C19_Witness ==
    /\ last_step.event = "delete_user"
    /\ Len(store_calls) = 2
    /\ store_calls[1].op = "set_user"
    /\ NamesOf(_data, MAC) = ("1" :> "Dana")
    /\ NamesOf(_data, OTHER_MAC) = ("1" :> "Bob" @@ "3" :> "Carol")

\* Two calls of the store with the same operation and arguments.
SameCall(c, d) ==
    c.op = d.op /\ c.mac = d.mac /\ c.user_id = d.user_id /\ c.name = d.name

\* C20: a call of set_user or delete_user that repeats the call before it
\* leaves the table as that call left it, and delete_user for an id or a
\* lock without a mapping leaves the table as it is; neither raises.
C20_StoreCallsIdempotent ==
    [][StoreCalled(last_step') =>
          LET n == Len(store_calls')
              call == store_calls'[n]
              key == ToString(call.user_id)
          IN  /\ last_step'.result # "raised"
              /\ (n > 1 /\ SameCall(store_calls'[n - 1], call)) => _data' = _data
              /\ (call.op = "delete_user" /\ key \notin DOMAIN NamesOf(_data, call.mac))
                    => _data' = _data]_vars

\* set_user was called twice in a row with the same arguments for a user
\* that had another name before.
C20_Witness ==
    /\ last_step.event = "set_user"
    /\ Len(store_calls) = 2
    /\ SameCall(store_calls[1], store_calls[2])
    /\ store_calls[2].mac = MAC
    /\ store_calls[2].user_id = 3
    /\ NamesOf(_data, MAC) = ("3" :> "Dana")

\* The names the written document has for this manager's lock.
PersistedNames == NamesOf(_store, MAC)

\* The calls of the store that are suspended in async_save.
Saving == {k \in DOMAIN store_calls : store_calls[k].pc = "saving"}

C23_EmptyFetchIsNoOp ==
    [][(last_step'.event = "device_returned" /\ last_step'.logs = <<>>) =>
          /\ last_step'.result = "empty"
          /\ last_step'.outcome = "returned"
          /\ last_step'.notified = 0
          /\ UNCHANGED <<_latest_logs, tracker>>]_vars

\* The fetch of a state-change task got no record while a batch was cached
\* and the sensor held an entry of it.
C23_Witness ==
    /\ last_step.event = "device_returned"
    /\ last_step.logs = <<>>
    /\ tasks[last_step.task].kind = "state_change"
    /\ tracker._current_log # None
    /\ tracker._current_log[1] \in Entries(_latest_logs)

\* C24: a fetch that gets at least one record assigns the cache and calls
\* every registered listener once within the one step in which get_logs
\* ends, so the Last User sensor handles exactly the batch of that fetch;
\* no other step touches the cache or the sensor or calls a listener, also
\* while other fetches are in flight.
C24_ReplaceAndNotifyAtomic ==
    [][IF last_step'.event = "device_returned" /\ last_step'.logs # <<>>
       THEN /\ Updated(last_step')
            /\ _latest_logs' = EnrichedForm(last_step'.logs)
            /\ last_step'.notified = Len(_listeners)
            /\ LET q == Qualifying(_latest_logs', tracker._last_processed_timestamp)
               IN  IF q = {} THEN tracker' = tracker
                   ELSE /\ tracker'._current_log # None
                        /\ tracker'._current_log[1] \in Entries(_latest_logs')
                        /\ tracker'._last_processed_timestamp =
                              tracker'._current_log[1].timestamp
       ELSE /\ UNCHANGED <<_latest_logs, tracker>>
            /\ last_step'.notified = 0]_vars

\* A fetch has replaced the cache and called both listeners while two other
\* fetches were awaiting the device.
C24_Witness ==
    /\ Updated(last_step)
    /\ last_step.notified = 2
    /\ tracker._current_log # None
    /\ tracker._current_log[1] \in Entries(_latest_logs)
    /\ Cardinality({i \in Tasks : tasks[i].pc = "fetching"}) >= 2

\* C25: the fetch of a state-change task begins no sooner than
\* LOG_FETCH_DEBOUNCE seconds after the fetch of the state-change task
\* before it began.
C25_FetchesDebounceApart ==
    [][\A i \in Tasks :
          (/\ tasks[i].kind = "state_change"
           /\ tasks[i].pc = "sleeping"
           /\ tasks'[i].pc = "fetching"
           /\ since_fetch # None)
          => since_fetch[1] >= LOG_FETCH_DEBOUNCE]_vars

\* C26: once the entry has been unloaded, no delayed task, all of which were
\* scheduled before, begins a device fetch, replaces the cache or calls a
\* listener.
C26_NoFetchAfterUnload ==
    [][entry_state = "unloaded" =>
          /\ \A i \in Tasks :
                Delayed(i) => ~(tasks[i].pc = "sleeping" /\ tasks'[i].pc = "fetching")
          /\ _latest_logs' = _latest_logs
          /\ last_step'.notified = 0]_vars

\* The listeners registered in the list ls.
Registered(ls) == {ls[i] : i \in 1..Len(ls)}

\* C27: a call of the unsubscribe handle of a listener takes that listener,
\* and nothing else, out of the list, and changes nothing if the listener is
\* not in it; no other step changes the list, so that the listener never
\* comes back; and every update calls each listener still registered once,
\* and the handler of the Last User sensor only while it is registered.
C27_UnsubscribeIsFinal ==
    /\ [][IF last_step'.event = "remove_listener"
          THEN LET listener == last_step'.listener
               IN  /\ listener \notin Registered(_listeners')
                   /\ _listeners' = SelectSeq(_listeners, LAMBDA l : l # listener)
                   /\ listener \notin Registered(_listeners) =>
                          UNCHANGED <<tasks, _pending_fetch_task, _latest_logs,
                                      _listeners, tracker, _data, _store, store_calls,
                                      entry_state, since_fetch>>
          ELSE _listeners' = _listeners]_vars
    /\ [](Cardinality(Registered(_listeners)) = Len(_listeners))
    /\ [][Updated(last_step') =>
             /\ last_step'.notified = Len(_listeners)
             /\ tracker' = IF "last_user" \in Registered(_listeners)
                           THEN _handle_log_update(tracker, _latest_logs')
                           ELSE tracker]_vars

\* An update came after the Last User sensor had called its handle: the one
\* listener left was called, and the sensor, which was not, holds no entry
\* although the batch has a user action.
C27_Witness ==
    /\ Updated(last_step)
    /\ _listeners = <<"last_activity">>
    /\ last_step.notified = 1
    /\ Qualifying(_latest_logs, 0) # {}
    /\ tracker._current_log = None

\* A log manager is registered for the device: the entry's manager has not
\* been popped and the device is the entry's.
HasManager(device_id) == entry_state = "loaded" /\ device_id = DEVICE_ID

\* The step was taken by the handler of a service call.
ServiceStep(step) == "service" \in DOMAIN step

\* C22: a call of any of the three services for a device without a
\* registered log manager ends in the validation error, and creates no
\* fetch, changes neither the cache nor the table of names nor the written
\* document, and calls no listener, while a call for a device with a manager
\* never ends so; and when the fetch of a get_lock_logs call fails, the call
\* ends in the other error, with the cache and the sensor as they were.
C22_UnknownDeviceIsRejected ==
    /\ [][ServiceStep(last_step') =>
             IF HasManager(last_step'.device_id)
             THEN /\ last_step'.event # "service_rejected"
                  /\ last_step'.outcome # "validation_error"
             ELSE /\ last_step'.event = "service_rejected"
                  /\ last_step'.outcome = "validation_error"
                  /\ last_step'.notified = 0
                  /\ UNCHANGED <<tasks, _pending_fetch_task, _latest_logs, _listeners,
                                 tracker, _data, _store, store_calls, entry_state>>]_vars
    /\ [][(/\ last_step'.event = "device_failed"
           /\ tasks[last_step'.task].kind = "service") =>
             /\ last_step'.outcome = "ha_error"
             /\ last_step'.outcome # "validation_error"
             /\ last_step'.notified = 0
             /\ UNCHANGED <<_latest_logs, tracker, _data>>]_vars

\* set_lock_user_name was called for a device that has no entry, while the
\* entry of the lock was loaded and its cache held a batch: the call was
\* rejected.
C22_Witness ==
    /\ last_step.event = "service_rejected"
    /\ last_step.service = "set_lock_user_name"
    /\ last_step.device_id = OTHER_DEVICE_ID
    /\ last_step.outcome = "validation_error"
    /\ entry_state = "loaded"
    /\ _latest_logs # <<>>

====
